---------------------------- MODULE Spec2Model ----------------------------
(***************************************************************************)
(* A model of gitbook-mcp.py: the CodeIndexer (source walker, structural   *)
(* parser, query and relationship engines) and the GitBookMCPServer that   *)
(* drives it (initial index pass, background refresh loop, HTTP readers).  *)
(*                                                                         *)
(* Text is a sequence of one-character strings, so that substring search,  *)
(* lower-casing, line splitting and regular-expression matching are        *)
(* computed the way the Python code computes them.                         *)
(***************************************************************************)
EXTENDS Integers, Sequences, FiniteSets, TLC

\* ------------------------------------------------------------------ text

\* Python's None where a str is expected (docstring, code_snippet, a node
\* without a name).  It is a sequence, so it compares with any text.
NoneStr == <<"None">>

\* Python truthiness of an Optional[str]: None and "" are falsy.
Truthy(s) == s # NoneStr /\ s # <<>>

Min(a, b) == IF a < b THEN a ELSE b

\* "sub in text" for str.
Contains(text, sub) ==
    \E i \in 0..(Len(text) - Len(sub)) : SubSeq(text, i + 1, i + Len(sub)) = sub

\* str.endswith
EndsWith(text, suffix) ==
    /\ Len(suffix) <= Len(text)
    /\ SubSeq(text, Len(text) - Len(suffix) + 1, Len(text)) = suffix

\* lst[a:b] for 0 <= a (Python clamps b to len(lst); an empty range is []).
PySlice(lst, a, b) == SubSeq(lst, a + 1, Min(b, Len(lst)))

Upper == <<"A","B","C","D","E","F","G","H","I","J","K","L","M",
           "N","O","P","Q","R","S","T","U","V","W","X","Y","Z">>

LowerTab == <<"a","b","c","d","e","f","g","h","i","j","k","l","m",
              "n","o","p","q","r","s","t","u","v","w","x","y","z">>

LowerChar(c) ==
    IF \E i \in 1..Len(Upper) : Upper[i] = c
    THEN LowerTab[CHOOSE i \in 1..Len(Upper) : Upper[i] = c]
    ELSE c

\* str.lower()
Lower(s) == [i \in 1..Len(s) |-> LowerChar(s[i])]

RECURSIVE JoinWith(_, _)
\* sep.join(parts)
JoinWith(parts, sep) ==
    IF parts = <<>> THEN <<>>
    ELSE IF Len(parts) = 1 THEN parts[1]
    ELSE parts[1] \o sep \o JoinWith(Tail(parts), sep)

RECURSIVE splitlines(_)
\* str.splitlines() (texts here break lines with "\n" only): no empty last
\* line for a text that ends with a line break.
splitlines(text) ==
    IF text = <<>> THEN <<>>
    ELSE IF \E i \in 1..Len(text) : text[i] = "\n"
         THEN LET i == CHOOSE k \in 1..Len(text) :
                          text[k] = "\n" /\ \A j \in 1..(k - 1) : text[j] # "\n"
              IN  <<SubSeq(text, 1, i - 1)>> \o splitlines(SubSeq(text, i + 1, Len(text)))
         ELSE <<text>>

RECURSIVE ReplaceStar(_)
\* pattern.replace('*', '.*')
ReplaceStar(p) ==
    IF p = <<>> THEN <<>>
    ELSE (IF p[1] = "*" THEN <<".", "*">> ELSE <<p[1]>>) \o ReplaceStar(Tail(p))

\* One regular-expression atom against one character: "." is any character
\* but a line break, every other atom of the patterns used here is literal.
AtomMatches(a, c) == IF a = "." THEN c # "\n" ELSE a = c

RECURSIVE re_match(_, _)
\* re.match(regex, s): the regex (atoms, each optionally starred) matches a
\* PREFIX of s; the rest of s is not looked at.
re_match(regex, s) ==
    IF regex = <<>> THEN TRUE
    ELSE IF Len(regex) >= 2 /\ regex[2] = "*"
         THEN \E k \in 0..Len(s) :
                 /\ \A j \in 1..k : AtomMatches(regex[1], s[j])
                 /\ re_match(SubSeq(regex, 3, Len(regex)), SubSeq(s, k + 1, Len(s)))
         ELSE /\ s # <<>>
              /\ AtomMatches(regex[1], s[1])
              /\ re_match(Tail(regex), Tail(s))

\* hashlib.md5(snippet.encode()).hexdigest(), as an ideal digest: a
\* deterministic function of the snippet alone, different for different
\* snippets.
md5(snippet) == <<"md5:">> \o snippet

\* ------------------------------------------------------------- syntax trees

\* One node of the tree ast.parse returns.  kind is the node class, field the
\* field of the parent that holds it, lineno its line (0: the node class
\* carries no lineno attribute), name its identifier (ClassDef/FunctionDef
\* name, Name id, arg, alias name, the value of a str Constant) and children
\* its child nodes in the order of ast.iter_child_nodes.
N(kind, fld, lineno, name, children) ==
    [kind |-> kind, field |-> fld, lineno |-> lineno, name |-> name,
     children |-> children]

\* The source texts the tree may hold, each with the tree CPython's ast.parse
\* builds for it (node order and line numbers as reported by ast).
\*
\*   class K:              import u2
\*    def g(s):            def f():
\*     return 1             "Doc K"
\*    @p                    return K
\*    def g(s):
\*     pass
SrcAText == <<"c","l","a","s","s"," ","K",":","\n"," ","d","e","f"," ","g","(","s",")",":","\n"," "," ","r","e","t","u","r","n"," ","1","\n"," ","@","p","\n"," ","d","e","f"," ","g","(","s",")",":","\n"," "," ","p","a","s","s","\n">>

SrcAAst ==
  N("Module", "", 0, NoneStr, <<
    N("ClassDef", "body", 1, <<"K">>, <<
      N("FunctionDef", "body", 2, <<"g">>, <<
        N("arguments", "args", 0, NoneStr, <<
          N("arg", "args", 2, <<"s">>, <<>>) >>),
        N("Return", "body", 3, NoneStr, <<
          N("Constant", "value", 3, NoneStr, <<>>) >>) >>),
      N("FunctionDef", "body", 5, <<"g">>, <<
        N("arguments", "args", 0, NoneStr, <<
          N("arg", "args", 5, <<"s">>, <<>>) >>),
        N("Pass", "body", 6, NoneStr, <<>>),
        N("Name", "decorator_list", 4, <<"p">>, <<
          N("Load", "ctx", 0, NoneStr, <<>>) >>) >>) >>) >>)

SrcBText == <<"i","m","p","o","r","t"," ","u","2","\n","d","e","f"," ","f","(",")",":","\n"," ","\"","D","o","c"," ","K","\"","\n"," ","r","e","t","u","r","n"," ","K","\n">>

SrcBAst ==
  N("Module", "", 0, NoneStr, <<
    N("Import", "body", 1, NoneStr, <<
      N("alias", "names", 1, <<"u","2">>, <<>>) >>),
    N("FunctionDef", "body", 2, <<"f">>, <<
      N("arguments", "args", 0, NoneStr, <<>>),
      N("Expr", "body", 3, NoneStr, <<
        N("Constant", "value", 3, <<"D","o","c"," ","K">>, <<>>) >>),
      N("Return", "body", 4, NoneStr, <<
        N("Name", "value", 4, <<"K">>, <<
          N("Load", "ctx", 0, NoneStr, <<>>) >>) >>) >>) >>)

\*   def f(:               (a syntax error)
SrcBadText == <<"d","e","f"," ","f","(",":","\n">>

\* What a file on disk can hold: bytes that decode as UTF-8 or not, the text
\* they decode to, and whether that text parses.
FileA == [decodes |-> TRUE, text |-> SrcAText, parses |-> TRUE, tree |-> SrcAAst]

FileB == [decodes |-> TRUE, text |-> SrcBText, parses |-> TRUE, tree |-> SrcBAst]

FileBad ==
    [decodes |-> TRUE, text |-> SrcBadText, parses |-> FALSE,
     tree |-> N("Module", "", 0, NoneStr, <<>>)]

FileUndecodable ==
    [decodes |-> FALSE, text |-> <<>>, parses |-> FALSE,
     tree |-> N("Module", "", 0, NoneStr, <<>>)]

Contents == <<FileA, FileB, FileBad, FileUndecodable>>

\* A slot of the tree below the root that holds no file.
Absent == 0

\* The places of the source tree, in the order os.walk reports them (a
\* directory's files before its subdirectories): u.py and d/u2.py.
Places ==
    << [dirs |-> <<>>, base |-> <<"u",".","p","y">>],
       [dirs |-> << <<"d">> >>, base |-> <<"u","2",".","p","y">>] >>

PlaceIds == 1..Len(Places)

ContentIds == 1..Len(Contents)

\* ------------------------------------------------------------ the indexer

\* DictSet as a list appended to on every store.
DictSetAppend(d, k, v) == Append(d, [key |-> k, val |-> v])

\* A dict: Python keeps the keys in the order of their FIRST insertion; a
\* store under a key already present replaces the value where it stands.
DictHas(d, k) == \E i \in 1..Len(d) : d[i].key = k

DictSet(d, k, v) ==
    IF DictHas(d, k)
    THEN [i \in 1..Len(d) |-> IF d[i].key = k THEN [key |-> k, val |-> v] ELSE d[i]]
    ELSE Append(d, [key |-> k, val |-> v])

\* dict.get(k) of a missing key.
None == [entity_type |-> "None"]

DictGet(d, k) ==
    IF DictHas(d, k) THEN d[CHOOSE i \in 1..Len(d) : d[i].key = k].val ELSE None

\* dict.values(), in iteration order.
DictValues(d) == [i \in 1..Len(d) |-> d[i].val]

DictKeys(d) == [i \in 1..Len(d) |-> d[i].key]

\* The dataclasses CodeEntity, FunctionEntity, ClassEntity and ModuleEntity as
\* one record shape; __post_init__ sets hash from a truthy code_snippet.
CodeEntity(name, filepath, line_start, line_end, docstring, code_snippet, entity_type) ==
    [name |-> name, filepath |-> filepath, line_start |-> line_start,
     line_end |-> line_end, docstring |-> docstring,
     code_snippet |-> code_snippet, entity_type |-> entity_type,
     hash |-> IF Truthy(code_snippet) THEN md5(code_snippet) ELSE <<>>,
     parameters |-> <<>>, return_type |-> NoneStr,
     methods |-> <<>>, properties |-> <<>>, base_classes |-> <<>>,
     functions |-> <<>>, classes |-> <<>>, imports |-> <<>>]

\* node.<fld>: the children held by one field of the node.
Field(node, fld) == SelectSeq(node.children, LAMBDA c : c.field = fld)

\* os.path.relpath(file_path, root_path)
relpath(place) == JoinWith(place.dirs \o <<place.base>>, <<"/">>)

\* os.path.splitext(os.path.basename(file_path))[0] of a name ending in .py
module_name_of(place) == SubSeq(place.base, 1, Len(place.base) - 3)

\* ast.get_docstring(node): the value of a first body statement that is a
\* bare string constant (one-line docstrings, which cleandoc leaves as is).
get_docstring(node) ==
    LET body == Field(node, "body")
    IN  IF /\ body # <<>>
           /\ body[1].kind = "Expr"
           /\ body[1].children # <<>>
           /\ body[1].children[1].kind = "Constant"
           /\ body[1].children[1].name # NoneStr
        THEN body[1].children[1].name
        ELSE NoneStr

RECURSIVE _find_node_end(_)
\* CodeIndexer._find_node_end: the loop returns only at a child that both
\* carries a line number and is the last one iterated; else node.lineno.
_find_node_end(node) ==
    LET n == Len(node.children)
    IN  IF \E i \in 1..n : node.children[i].lineno # 0 /\ i = n
        THEN _find_node_end(node.children[n])
        ELSE node.lineno

RECURSIVE _get_name_from_expr(_)
\* CodeIndexer._get_name_from_expr (Python 3.9+, where a slice is never an
\* ast.Index); any other expression gives its class name, kept as one token.
_get_name_from_expr(expr) ==
    IF expr.kind = "Name" THEN expr.name
    ELSE IF expr.kind = "Attribute"
         THEN _get_name_from_expr(Field(expr, "value")[1]) \o <<".">> \o expr.name
    ELSE IF expr.kind = "Subscript"
         THEN _get_name_from_expr(Field(expr, "value")[1]) \o <<"[", ".", ".", ".", "]">>
    ELSE <<expr.kind>>

\* CodeIndexer._process_function
_process_function(node, place, file_content) ==
    LET source_lines == splitlines(file_content)
        func_start == node.lineno
        func_end == _find_node_end(node)
        func_code == JoinWith(PySlice(source_lines, func_start - 1, func_end), <<"\n">>)
        args == IF Field(node, "args") = <<>> THEN <<>>
                ELSE Field(Field(node, "args")[1], "args")
        parameters ==
            [i \in 1..Len(args) |->
                [name |-> args[i].name,
                 type |-> IF Field(args[i], "annotation") = <<>> THEN NoneStr
                          ELSE _get_name_from_expr(Field(args[i], "annotation")[1])]]
        return_type == IF Field(node, "returns") = <<>> THEN NoneStr
                       ELSE _get_name_from_expr(Field(node, "returns")[1])
    IN  [CodeEntity(node.name, relpath(place), func_start, func_end,
                    get_docstring(node), func_code, "function")
            EXCEPT !.parameters = parameters, !.return_type = return_type]

RECURSIVE ProcessMethodsBare(_, _, _, _, _, _)
\* ProcessMethods with the store made under the bare method name.
ProcessMethodsBare(body, i, acc, class_name, place, file_content) ==
    IF i > Len(body) THEN acc
    ELSE IF body[i].kind = "FunctionDef"
         THEN LET method_entity == _process_function(body[i], place, file_content)
                  qualified_name == class_name \o <<".">> \o body[i].name
                  renamed == [method_entity EXCEPT !.name = qualified_name]
              IN  ProcessMethodsBare(body, i + 1,
                      [methods |-> Append(acc.methods, renamed),
                       all_entities |-> DictSet(acc.all_entities, body[i].name, renamed)],
                      class_name, place, file_content)
         ELSE ProcessMethodsBare(body, i + 1, acc, class_name, place, file_content)

RECURSIVE ProcessMethods(_, _, _, _, _, _)
\* The "Process methods" loop of _process_class from body item i on: every
\* FunctionDef of the class body becomes a function entity, renamed to
\* Class.method and stored in all_entities under that qualified name.
ProcessMethods(body, i, acc, class_name, place, file_content) ==
    IF i > Len(body) THEN acc
    ELSE IF body[i].kind = "FunctionDef"
         THEN LET method_entity == _process_function(body[i], place, file_content)
                  qualified_name == class_name \o <<".">> \o body[i].name
                  renamed == [method_entity EXCEPT !.name = qualified_name]
              IN  ProcessMethods(body, i + 1,
                      [methods |-> Append(acc.methods, renamed),
                       all_entities |-> DictSet(acc.all_entities, qualified_name, renamed)],
                      class_name, place, file_content)
         ELSE ProcessMethods(body, i + 1, acc, class_name, place, file_content)

\* CodeIndexer._process_class: the class entity it returns, and all_entities
\* after the stores it makes for the methods.
_process_class(all_entities, node, place, file_content) ==
    LET source_lines == splitlines(file_content)
        class_start == node.lineno
        class_end == _find_node_end(node)
        class_code == JoinWith(PySlice(source_lines, class_start - 1, class_end), <<"\n">>)
        bases == Field(node, "bases")
        base_classes == [i \in 1..Len(bases) |-> _get_name_from_expr(bases[i])]
        done == ProcessMethods(Field(node, "body"), 1,
                               [methods |-> <<>>, all_entities |-> all_entities],
                               node.name, place, file_content)
    IN  [entity |-> [CodeEntity(node.name, relpath(place), class_start, class_end,
                                get_docstring(node), class_code, "class")
                        EXCEPT !.base_classes = base_classes, !.methods = done.methods],
         all_entities |-> done.all_entities]

RECURSIVE ImportNames(_, _)
\* One string per imported name of one import statement.
ImportNames(prefix, names) ==
    IF names = <<>> THEN <<>>
    ELSE <<prefix \o names[1].name>> \o ImportNames(prefix, Tail(names))

RECURSIVE _extract_imports(_)
\* CodeIndexer._extract_imports, over the statements of the module body.
_extract_imports(body) ==
    IF body = <<>> THEN <<>>
    ELSE (IF body[1].kind = "Import"
          THEN ImportNames(<<"i","m","p","o","r","t"," ">>, Field(body[1], "names"))
          ELSE IF body[1].kind = "ImportFrom"
          THEN ImportNames(<<"f","r","o","m"," ">> \o body[1].name
                               \o <<" ","i","m","p","o","r","t"," ">>,
                           Field(body[1], "names"))
          ELSE <<>>)
         \o _extract_imports(Tail(body))

RECURSIVE ProcessBody(_, _, _, _, _)
\* The "Process classes and functions" loop of _index_file from statement i.
ProcessBody(body, i, acc, place, file_content) ==
    IF i > Len(body) THEN acc
    ELSE IF body[i].kind = "ClassDef"
         THEN LET r == _process_class(acc.all_entities, body[i], place, file_content)
              IN  ProcessBody(body, i + 1,
                      [acc EXCEPT !.classes = Append(@, r.entity),
                                  !.all_entities = DictSet(r.all_entities, r.entity.name, r.entity)],
                      place, file_content)
    ELSE IF body[i].kind = "FunctionDef"
         THEN LET func_entity == _process_function(body[i], place, file_content)
              IN  ProcessBody(body, i + 1,
                      [acc EXCEPT !.functions = Append(@, func_entity),
                                  !.all_entities = DictSet(@, func_entity.name, func_entity)],
                      place, file_content)
    ELSE ProcessBody(body, i + 1, acc, place, file_content)

\* The two dicts of a CodeIndexer.
EmptyIndex == [modules |-> <<>>, all_entities |-> <<>>]

\* The body of the try of _index_file for a text that parses: the module
\* entity, its classes and functions, and the stores into the two dicts.
IndexParsedFile(index, place, content) ==
    LET file_content == Contents[content].text
        module_ast == Contents[content].tree
        module_name == module_name_of(place)
        body == Field(module_ast, "body")
        done == ProcessBody(body, 1,
                    [classes |-> <<>>, functions |-> <<>>,
                     all_entities |-> index.all_entities],
                    place, file_content)
        module == [CodeEntity(module_name, relpath(place), 1,
                              Len(splitlines(file_content)),
                              get_docstring(module_ast), file_content, "module")
                      EXCEPT !.imports = _extract_imports(body),
                             !.classes = done.classes,
                             !.functions = done.functions]
    IN  [modules |-> DictSet(index.modules, module_name, module),
         all_entities |-> DictSet(done.all_entities, module_name, module)]

\* _index_file with the module registered before the text is parsed, so that
\* a file with a syntax error still leaves its module entity.
_index_file_eager(index, place, content) ==
    IF content = Absent \/ ~Contents[content].decodes
    THEN [raised |-> TRUE, index |-> index]
    ELSE IF ~Contents[content].parses
    THEN LET module_name == module_name_of(place)
             module == CodeEntity(module_name, relpath(place), 1,
                                  Len(splitlines(Contents[content].text)), NoneStr,
                                  Contents[content].text, "module")
         IN  [raised |-> FALSE,
              index |-> [modules |-> DictSet(index.modules, module_name, module),
                         all_entities |-> DictSet(index.all_entities, module_name, module)]]
    ELSE [raised |-> FALSE, index |-> IndexParsedFile(index, place, content)]

\* CodeIndexer._index_file on the file found at `place`, holding `content`
\* (Absent: the file is gone by the time it is opened).  raised: open() or
\* the UTF-8 decoding of read() raised, and nothing was stored; a SyntaxError
\* of ast.parse is caught inside and stores nothing either.
_index_file(index, place, content) ==
    IF content = Absent \/ ~Contents[content].decodes
    THEN [raised |-> TRUE, index |-> index]
    ELSE IF ~Contents[content].parses
    THEN [raised |-> FALSE, index |-> index]
    ELSE [raised |-> FALSE, index |-> IndexParsedFile(index, place, content)]

RECURSIVE RunPass(_, _, _, _)
\* The for loop of index_codebase from position i on: _index_file on each
\* file of the list in turn, an exception of one file logged and skipped.
\* contents[j] is what the j-th file holds when it is read.
RunPass(index, files, contents, i) ==
    IF i > Len(files) THEN index
    ELSE RunPass(_index_file(index, Places[files[i]], contents[i]).index,
                 files, contents, i + 1)

\* The default exclude_patterns of CodeIndexer.__init__:
\* "__pycache__", "*.pyc", ".*", "venv", "env".
DefaultPatterns ==
    << <<"_","_","p","y","c","a","c","h","e","_","_">>, <<"*",".","p","y","c">>,
       <<".","*">>, <<"v","e","n","v">>, <<"e","n","v">> >>

\* A caller's own exclude_patterns: "__pycache__", "*.pyc".
CustomPatterns ==
    << <<"_","_","p","y","c","a","c","h","e","_","_">>, <<"*",".","p","y","c">> >>

\* any(re.match(pattern.replace('*', '.*'), name) for pattern in exclude_patterns)
Excluded(patterns, name) ==
    \E i \in 1..Len(patterns) : re_match(ReplaceStar(patterns[i]), name)

\* Whether the walk of _find_python_files collects the file at place p: the
\* root can be walked (os.walk of a missing root yields nothing and raises
\* nothing), no directory on the way was pruned, the basename ends in .py and
\* matches no pattern.
Collected(root, tree, patterns, p) ==
    /\ root
    /\ tree[p] # Absent
    /\ \A i \in 1..Len(Places[p].dirs) : ~Excluded(patterns, Places[p].dirs[i])
    /\ EndsWith(Places[p].base, <<".","p","y">>)
    /\ ~Excluded(patterns, Places[p].base)

RECURSIVE WalkFrom(_, _, _, _)
WalkFrom(root, tree, patterns, p) ==
    IF p > Len(Places) THEN <<>>
    ELSE (IF Collected(root, tree, patterns, p) THEN <<p>> ELSE <<>>)
         \o WalkFrom(root, tree, patterns, p + 1)

\* CodeIndexer._find_python_files: the places collected, in walk order.
_find_python_files(root, tree, patterns) == WalkFrom(root, tree, patterns, 1)

\* ------------------------------------------------------------ the queries

\* CodeIndexer.search_entities; entity_type "" is a falsy filter (None).
search_entities(entities, query, entity_type) ==
    LET query_lower == Lower(query)
        Matches(entity) ==
            /\ ~(entity_type # "" /\ entity.entity_type # entity_type)
            /\ \/ Contains(Lower(entity.name), query_lower)
               \/ Truthy(entity.docstring) /\ Contains(Lower(entity.docstring), query_lower)
               \/ Truthy(entity.code_snippet)
                      /\ Contains(Lower(entity.code_snippet), query_lower)
    IN  SelectSeq(DictValues(entities), Matches)

\* CodeIndexer.get_entity_by_name
get_entity_by_name(entities, name) == DictGet(entities, name)

Digits == <<"0","1","2","3","4","5","6","7","8","9">>

\* \w of a regular expression, for the characters used here.
IsWordChar(c) ==
    \/ c = "_"
    \/ \E i \in 1..Len(Upper) : Upper[i] = c \/ LowerTab[i] = c
    \/ \E i \in 1..Len(Digits) : Digits[i] = c

\* \b at offset i of text (between text[i] and text[i+1]).
WordBoundary(text, i) ==
    LET before == i >= 1 /\ IsWordChar(text[i])
        after == i < Len(text) /\ IsWordChar(text[i + 1])
    IN  before # after

\* re.search(r'\b' + re.escape(name) + r'\b', text)
WholeWordIn(text, name) ==
    \E i \in 0..(Len(text) - Len(name)) :
        /\ SubSeq(text, i + 1, i + Len(name)) = name
        /\ WordBoundary(text, i)
        /\ WordBoundary(text, i + Len(name))

\* name.split(".")[-1]
LastSegment(name) ==
    IF \E i \in 1..Len(name) : name[i] = "."
    THEN LET i == CHOOSE k \in 1..Len(name) :
                     name[k] = "." /\ \A j \in (k + 1)..Len(name) : name[j] # "."
         IN  SubSeq(name, i + 1, Len(name))
    ELSE name

RECURSIVE Flatten(_)
Flatten(lists) == IF lists = <<>> THEN <<>> ELSE lists[1] \o Flatten(Tail(lists))

\* The "imported_by" loop: once per import string of a module of self.modules
\* that contains the entity's name; the entity's own module is not skipped.
ImportedBy(mods, entity) ==
    Flatten([i \in 1..Len(mods) |->
        LET other_module == mods[i].val
            hits == SelectSeq(other_module.imports,
                              LAMBDA import_stmt : Contains(import_stmt, entity.name))
        IN  [j \in 1..Len(hits) |-> other_module.name]])

\* The "imports" loop: for each import string of the entity, every key of
\* self.modules contained in it.
Imports(mods, entity) ==
    Flatten([i \in 1..Len(entity.imports) |->
        SelectSeq(DictKeys(mods),
                  LAMBDA other_module_name : Contains(entity.imports[i], other_module_name))])

\* CodeIndexer.get_entity_relationships
get_entity_relationships(mods, entities, entity_name) ==
    LET entity == DictGet(entities, entity_name)
        simple_name == LastSegment(entity.name)
        others == SelectSeq(DictValues(entities), LAMBDA o : o.name # entity.name)
        used_by == SelectSeq(others, LAMBDA o :
                       Truthy(o.code_snippet) /\ WholeWordIn(o.code_snippet, simple_name))
        uses == SelectSeq(others, LAMBDA o :
                    Truthy(entity.code_snippet)
                        /\ WholeWordIn(entity.code_snippet, LastSegment(o.name)))
    IN  IF entity = None
        THEN [imports |-> <<>>, imported_by |-> <<>>, uses |-> <<>>, used_by |-> <<>>]
        ELSE [imports |-> IF entity.entity_type = "module"
                          THEN Imports(mods, entity) ELSE <<>>,
              imported_by |-> IF entity.entity_type = "module"
                              THEN ImportedBy(mods, entity) ELSE <<>>,
              uses |-> [i \in 1..Len(uses) |-> uses[i].name],
              used_by |-> [i \in 1..Len(used_by) |-> used_by[i].name]]

\* ------------------------------------------------------------- the server

\* self.index_interval and the sleep of _background_indexing, in seconds.
index_interval == 300

poll_seconds == 60

\* How many times the source tree is changed while the server runs.
MaxEdits == 2

\* The values of q (absent or empty, matching, matching nothing) and of type
\* (absent, a kind) a /search request can carry.
Queries == { <<>>, <<"K">>, <<"z","z">> }

TypeFilters == { "", "function" }

\* The /search requests (q, type) and the /entity names the HTTP clients
\* send while the server runs.
SearchRequests == { << <<>>, "" >>, << <<"K">>, "" >>, << <<"K">>, "function" >> }

EntityNames == { <<"K",".","g">> }

VARIABLES
    root_exists,      \* the root path is an existing directory
    fs,               \* place -> the content of the file there, or Absent
    exclude_patterns, \* CodeIndexer.exclude_patterns
    doc_parser,       \* GitBookMCPServer.doc_parser is not None (docs_path given)
    modules,          \* CodeIndexer.modules
    all_entities,     \* CodeIndexer.all_entities
    pc,               \* "init", "start_index", "sleep", "bg_index", "indexed"
                      \* (index_codebase called on its own returned), or, after an
                      \* exception left start or the background thread:
                      \* "crashed" (the process ended) or "bg_dead" (only the
                      \* thread ended; the HTTP server goes on)
    python_files,     \* index_codebase: the list the walk returned
    file_idx,         \* index_codebase: the position of its for loop
    since_indexed,    \* time.time() - self.last_indexed, in seconds
    resp,             \* the HTTP response returned by this step, if any
    gen_start,        \* history: the index when the running pass began
    read_log,         \* history: the content each file of the pass held when read
    root_at_walk,     \* history: the root existed when the pass walked it
    dirty_pass,       \* history: the tree changed since the running pass began
    quiet,            \* history: passes completed in a row with no change (<= 2)
    edits,            \* history: changes of the tree so far
    node,             \* _find_node_end called on its own: its argument
    node_end,         \* _find_node_end called on its own: its result (0: none yet)
    src_files         \* index_codebase called on its own: the files its walk
                      \* finds, in the order found, each with what it holds

\* The state of the server with its indexer.
server_vars == <<root_exists, fs, exclude_patterns, doc_parser, modules, all_entities,
                 pc, python_files, file_idx, since_indexed, resp, gen_start, read_log,
                 root_at_walk, dirty_pass, quiet, edits>>

\* The state of an operation of the indexer called on its own.
lone_vars == <<node, node_end, src_files>>

vars == <<server_vars, lone_vars>>

NoResp == [op |-> "none", query |-> <<>>, type |-> "", status |-> 0, body |-> <<>>]

Index == [modules |-> modules, all_entities |-> all_entities]

Indexing == pc \in {"start_index", "bg_index"}

\* No node: _find_node_end is not called on its own.
NoNode == N("None", "", 0, NoneStr, <<>>)

\* GitBookMCPServer.__init__ with a CodeIndexer over a root that holds no
\* file yet (or does not exist): both dicts empty, last_indexed 0, nothing
\* running yet.  The environment fills and changes the tree from here.
\* docs: a docs_path is given, so that a DocParser is made.
InitWith(docs) ==
    /\ root_exists \in BOOLEAN
    /\ fs = [p \in PlaceIds |-> Absent]
    /\ exclude_patterns \in {DefaultPatterns, CustomPatterns}
    /\ doc_parser = docs
    /\ modules = <<>>
    /\ all_entities = <<>>
    /\ pc = "init"
    /\ python_files = <<>>
    /\ file_idx = 0
    /\ since_indexed = 0
    /\ resp = NoResp
    /\ gen_start = EmptyIndex
    /\ read_log = <<>>
    /\ root_at_walk = TRUE
    /\ dirty_pass = FALSE
    /\ quiet = 0
    /\ edits = 0

\* The server made without --docs-path (docs_path = None, its default).
Init == InitWith(FALSE) /\ node = NoNode /\ node_end = 0 /\ src_files = <<>>

\* The server made with --docs-path.
InitDocs == InitWith(TRUE) /\ node = NoNode /\ node_end = 0 /\ src_files = <<>>

\* The documentation trees glob can find under docs_path: for each *.md
\* file, whether open() and the UTF-8 decoding of read() succeed.
DocTrees == { <<>>, <<TRUE>>, <<FALSE>>, <<TRUE, FALSE>> }

\* DocParser.index_docs raises: its loop opens and reads each file outside
\* any try, so the first file that cannot be read ends it.
index_docs_raises(md_files) == \E i \in 1..Len(md_files) : ~md_files[i]

\* index_codebase up to its for loop: the walk.
BeginPass(next_pc) ==
    /\ python_files' = _find_python_files(root_exists, fs, exclude_patterns)
    /\ file_idx' = 1
    /\ pc' = next_pc
    /\ gen_start' = Index
    /\ read_log' = <<>>
    /\ root_at_walk' = root_exists
    /\ dirty_pass' = FALSE
    /\ UNCHANGED <<root_exists, fs, exclude_patterns, doc_parser, lone_vars, modules, all_entities, quiet, edits>>

\* GitBookMCPServer.start: the first index pass begins; the HTTP server is
\* not up before it and index_docs end.
start ==
    /\ pc = "init"
    /\ BeginPass("start_index")
    /\ resp' = NoResp
    /\ UNCHANGED since_indexed

\* One iteration of the for loop of index_codebase: _index_file in its try;
\* an exception is logged and the loop goes on.
index_file_step ==
    /\ Indexing
    /\ file_idx <= Len(python_files)
    /\ LET place == python_files[file_idx]
           r == _index_file(Index, Places[place], fs[place])
       IN  /\ modules' = r.index.modules
           /\ all_entities' = r.index.all_entities
           /\ read_log' = Append(read_log, fs[place])
    /\ file_idx' = file_idx + 1
    /\ resp' = NoResp
    /\ UNCHANGED <<root_exists, fs, exclude_patterns, doc_parser, lone_vars, pc, python_files, since_indexed,
                   gen_start, root_at_walk, dirty_pass, quiet, edits>>

\* index_codebase returns and, with a doc_parser, index_docs runs over the
\* documentation tree it finds.  When that returns too, start sets
\* last_indexed to the time and starts the background thread and the HTTP
\* server, and _background_indexing sets last_indexed to the `now` it read
\* before the pass.  Neither caller catches an exception of index_docs: it
\* leaves start (and main: the process ends) or the thread's function (the
\* thread ends, last_indexed stays as it was).
index_done ==
    /\ Indexing
    /\ file_idx > Len(python_files)
    /\ \E md_files \in DocTrees :
          LET raised == doc_parser /\ index_docs_raises(md_files)
          IN  /\ pc' = IF ~raised THEN "sleep"
                       ELSE IF pc = "start_index" THEN "crashed" ELSE "bg_dead"
              /\ since_indexed' = IF raised THEN since_indexed ELSE 0
    /\ quiet' = IF dirty_pass THEN 0 ELSE Min(quiet + 1, 2)
    /\ resp' = NoResp
    /\ UNCHANGED <<root_exists, fs, exclude_patterns, doc_parser, lone_vars, modules, all_entities,
                   python_files, file_idx, gen_start, read_log, root_at_walk,
                   dirty_pass, edits>>

\* One iteration of _background_indexing: sleep, read the time, and begin a
\* pass when more than index_interval has passed since last_indexed.
_background_indexing ==
    /\ pc = "sleep"
    /\ since_indexed' = since_indexed + poll_seconds
    /\ resp' = NoResp
    /\ IF since_indexed' > index_interval
       THEN BeginPass("bg_index")
       ELSE UNCHANGED <<root_exists, fs, exclude_patterns, doc_parser, lone_vars, modules, all_entities, pc,
                        python_files, file_idx, gen_start, read_log, root_at_walk,
                        dirty_pass, quiet, edits>>

\* A change of the tree: the running pass, if any, is no longer a pass over
\* an unchanged tree.
Edited ==
    /\ edits < MaxEdits
    /\ edits' = edits + 1
    /\ dirty_pass' = TRUE
    /\ quiet' = 0
    /\ resp' = NoResp
    /\ UNCHANGED <<exclude_patterns, doc_parser, lone_vars, modules, all_entities, pc, python_files,
                   file_idx, since_indexed, gen_start, read_log, root_at_walk>>

\* The environment writes (creates or replaces) the file at place p.
write_file(p, c) ==
    /\ root_exists
    /\ fs[p] # c
    /\ fs' = [fs EXCEPT ![p] = c]
    /\ UNCHANGED root_exists
    /\ Edited

\* The environment deletes the file at place p.
delete_file(p) ==
    /\ fs[p] # Absent
    /\ fs' = [fs EXCEPT ![p] = Absent]
    /\ UNCHANGED root_exists
    /\ Edited

\* The environment removes the root directory with all it holds.
remove_root ==
    /\ root_exists
    /\ root_exists' = FALSE
    /\ fs' = [p \in PlaceIds |-> Absent]
    /\ Edited

\* The HTTP server answers once start has run its index pass, also after the
\* background thread ended.
Serving == pc \in {"sleep", "bg_index", "bg_dead"}

\* SearchResponse without the check of q.
SearchResponseUnchecked(index, q, t) ==
    [op |-> "search", query |-> q, type |-> t, status |-> 200,
     body |-> search_entities(index.all_entities, q, t)]

\* What the /search route answers over an index: 400 for a falsy q, else the
\* entities search_entities returns (asdict keeps every field; the records
\* stand for the dicts).
SearchResponse(index, q, t) ==
    IF q = <<>>
    THEN [op |-> "search", query |-> q, type |-> t, status |-> 400, body |-> <<>>]
    ELSE [op |-> "search", query |-> q, type |-> t, status |-> 200,
          body |-> search_entities(index.all_entities, q, t)]

\* The /search route.
search(q, t) ==
    /\ Serving
    /\ resp' = SearchResponse(Index, q, t)
    /\ UNCHANGED <<root_exists, fs, exclude_patterns, doc_parser, lone_vars, modules, all_entities, pc,
                   python_files, file_idx, since_indexed, gen_start, read_log,
                   root_at_walk, dirty_pass, quiet, edits>>

\* What the /entity/<name> route answers over an index: 404 for an unknown
\* name, else the entity with its relationships.
EntityResponse(index, name) ==
    IF get_entity_by_name(index.all_entities, name) = None
    THEN [op |-> "entity", query |-> name, type |-> "", status |-> 404, body |-> <<>>]
    ELSE [op |-> "entity", query |-> name, type |-> "", status |-> 200,
          body |-> [entity |-> get_entity_by_name(index.all_entities, name),
                    relationships |-> get_entity_relationships(
                                          index.modules, index.all_entities, name)]]

\* The /entity/<name> route.
get_entity(name) ==
    /\ Serving
    /\ resp' = EntityResponse(Index, name)
    /\ UNCHANGED <<root_exists, fs, exclude_patterns, doc_parser, lone_vars, modules, all_entities, pc,
                   python_files, file_idx, since_indexed, gen_start, read_log,
                   root_at_walk, dirty_pass, quiet, edits>>

Next ==
    \/ start
    \/ index_file_step
    \/ index_done
    \/ _background_indexing
    \/ \E p \in PlaceIds, c \in ContentIds : write_file(p, c)
    \/ \E p \in PlaceIds : delete_file(p)
    \/ remove_root
    \/ \E r \in SearchRequests : search(r[1], r[2])
    \/ \E name \in EntityNames : get_entity(name)

Spec == Init /\ [][Next]_vars

\* The same server with a documentation tree to index.
SpecDocs == InitDocs /\ [][Next]_vars

\* ------------------------------------------- _find_node_end on its own

\* The tree ast.parse builds, from its FunctionDef on, for
\*   def h():
\*    return [
\*     1]
SrcSpanAst ==
  N("FunctionDef", "body", 1, <<"h">>, <<
    N("arguments", "args", 0, NoneStr, <<>>),
    N("Return", "body", 2, NoneStr, <<
      N("List", "value", 2, NoneStr, <<
        N("Constant", "elts", 3, NoneStr, <<>>),
        N("Load", "ctx", 0, NoneStr, <<>>) >>) >>) >>)

\* The highest line number in the trees made below.
MaxLine == 2

\* The lists of at most two elements of S.
UpToTwo(S) == {<<>>} \cup {<<a>> : a \in S} \cup {<<a, b>> : a \in S, b \in S}

\* A node without children: one with a line number, or one of a class that
\* has none (0: Load, arguments, an operator).
Leaves == {N("node", "", l, NoneStr, <<>>) : l \in 0..MaxLine}

\* The children a node can have: leaves, and line-bearing nodes with one or
\* two leaves as children.
Inner ==
    Leaves \cup {N("node", "", l, NoneStr, ch) :
                    l \in 1..MaxLine, ch \in UpToTwo(Leaves) \ {<<>>}}

\* The nodes _find_node_end is called on: a declaration, which carries a
\* line number, over every shape of up to two levels of children.
SpanTrees ==
    {SrcSpanAst} \cup {N("node", "", l, NoneStr, ch) :
                          l \in 1..MaxLine, ch \in UpToTwo(Inner)}

\* Any node of SpanTrees is about to be handed to _find_node_end.
InitSpan ==
    /\ InitWith(FALSE)
    /\ root_exists
    /\ exclude_patterns = DefaultPatterns
    /\ node \in SpanTrees
    /\ node_end = 0
    /\ src_files = <<>>

\* The call _find_node_end(node, source_lines).
find_node_end ==
    /\ node_end = 0
    /\ node_end' = _find_node_end(node)
    /\ UNCHANGED <<server_vars, node, src_files>>

NextSpan == find_node_end

SpecSpan == InitSpan /\ [][NextSpan]_vars

\* ------------------------------------------- index_codebase on its own

\* Files directly under the root: K.py, f.py and u.py.
NamedPlaces ==
    { [dirs |-> <<>>, base |-> <<"K",".","p","y">>],
      [dirs |-> <<>>, base |-> <<"f",".","p","y">>],
      [dirs |-> <<>>, base |-> <<"u",".","p","y">>] }

\* A file the walk finds: where it is and what it holds.
SrcFile == [place : NamedPlaces, content : ContentIds]

\* What _find_python_files can return over one or two of these files: the
\* files of one directory come in the order os.walk lists them, which is any.
SrcFileLists ==
    {<<a>> : a \in SrcFile}
        \cup {ab \in {<<a, b>> : a \in SrcFile, b \in SrcFile} : ab[1].place # ab[2].place}

RECURSIVE RunPassOver(_, _, _)
\* The for loop of index_codebase over a list of such files, from position i.
RunPassOver(index, src, i) ==
    IF i > Len(src) THEN index
    ELSE RunPassOver(_index_file(index, src[i].place, src[i].content).index, src, i + 1)

\* A CodeIndexer just made, over a root that holds one of these lists.
InitNames ==
    /\ InitWith(FALSE)
    /\ root_exists
    /\ exclude_patterns = CustomPatterns
    /\ node = NoNode
    /\ node_end = 0
    /\ src_files \in SrcFileLists

\* CodeIndexer.index_codebase, from the walk to its return.
index_codebase ==
    /\ pc = "init"
    /\ src_files # <<>>
    /\ LET index == RunPassOver(Index, src_files, 1)
       IN  /\ modules' = index.modules
           /\ all_entities' = index.all_entities
    /\ pc' = "indexed"
    /\ UNCHANGED <<root_exists, fs, exclude_patterns, doc_parser, lone_vars, python_files,
                   file_idx, since_indexed, resp, gen_start, read_log, root_at_walk,
                   dirty_pass, quiet, edits>>

NextNames == index_codebase

SpecNames == InitNames /\ [][NextNames]_vars

\* ------------------------------------------------------------- the claims

\* What the files of the running (or last) pass hold now, in walk order.
ContentsNow == [j \in 1..Len(python_files) |-> fs[python_files[j]]]

\* The index the running pass leaves when it ends, the tree staying as it is:
\* the complete new generation.
NewGeneration == RunPass(Index, python_files, ContentsNow, file_idx)

\* What the last pass alone produces, run over empty dicts on what it read.
FreshPass == RunPass(EmptyIndex, python_files, read_log, 1)

\* The answer the server gives over `index` to the request that resp answers.
AnswerOver(index) ==
    IF resp.op = "search" THEN SearchResponse(index, resp.query, resp.type)
    ELSE EntityResponse(index, resp.query)

\* The keys of a dict, as a set.
KeySet(d) == {d[i].key : i \in 1..Len(d)}

\* Two dicts hold the same entity under the same keys, whatever their order.
SameMapping(d, e) ==
    /\ KeySet(d) = KeySet(e)
    /\ \A k \in KeySet(d) : DictGet(d, k) = DictGet(e, k)

\* C1: while the background task runs a rebuild, every answer a reader gets
\* is the answer over the complete previous generation of the index or over
\* the complete new one, never over a partly rebuilt index.
C1_ReadersSeeWholeGeneration ==
    (pc = "bg_index" /\ resp.op # "none")
        => resp \in {AnswerOver(gen_start), AnswerOver(NewGeneration)}

\* C2: once a rebuild has completed, the index maps exactly the names that
\* pass produced from the tree it read (each to the entity it produced): an
\* entity of a file deleted since the previous pass is no longer there.
C2_IndexIsExactlyLastPass ==
    pc = "sleep"
        => /\ SameMapping(all_entities, FreshPass.all_entities)
           /\ SameMapping(modules, FreshPass.modules)

\* Every class entity the index holds: registered in all_entities, or listed
\* by a module.
IndexedClasses ==
    {all_entities[i].val : i \in {j \in 1..Len(all_entities) :
                                     all_entities[j].val.entity_type = "class"}}
    \cup UNION {{modules[i].val.classes[j] : j \in 1..Len(modules[i].val.classes)}
                : i \in 1..Len(modules)}

\* name is Class.method for some non-empty method part.
IsQualified(class_name, name) ==
    /\ Len(name) > Len(class_name) + 1
    /\ SubSeq(name, 1, Len(class_name) + 1) = class_name \o <<".">>

\* The j-th method of the class is the last one its body declares under that name.
LastOfItsName(class, j) ==
    \A k \in (j + 1)..Len(class.methods) : class.methods[k].name # class.methods[j].name

\* Every entity is stored under its own name, so an entity with a qualified
\* name is never the entry of the bare method name.
StoredUnderOwnName == \A i \in 1..Len(all_entities) : all_entities[i].key = all_entities[i].val.name

\* C3 as claimed: every method of every indexed class has the qualified name
\* Class.method, get_entity_by_name('Class.method') returns that very method
\* entity, and nothing is stored under the bare method name.
C3_EveryMethodRetrievable ==
    /\ \A class \in IndexedClasses : \A j \in 1..Len(class.methods) :
          /\ IsQualified(class.name, class.methods[j].name)
          /\ get_entity_by_name(all_entities, class.methods[j].name) = class.methods[j]
    /\ StoredUnderOwnName

\* C3 as amended: every method of every indexed class has the qualified name
\* Class.method; get_entity_by_name('Class.method') returns a function entity
\* of that name, the one stored last under the key: for the class registered
\* under its name, the last method its body declares under that name (an
\* earlier declaration of the same name is replaced); and nothing is stored
\* under the bare method name.
C3_MethodsQualifiedLastWins ==
    /\ \A class \in IndexedClasses : \A j \in 1..Len(class.methods) :
          LET method == class.methods[j]
              found == get_entity_by_name(all_entities, method.name)
          IN  /\ IsQualified(class.name, method.name)
              /\ found # None
              /\ found.entity_type = "function"
              /\ found.name = method.name
              /\ (get_entity_by_name(all_entities, class.name) = class
                     /\ LastOfItsName(class, j)) => found = method
    /\ StoredUnderOwnName

\* C3 witness: a class whose body declares one method name twice is indexed
\* and a client has fetched the method by its qualified name.
C3_Witness ==
    /\ resp.op = "entity" /\ resp.status = 200
    /\ resp.query = <<"K", ".", "g">>
    /\ \E class \in IndexedClasses : \E j \in 1..Len(class.methods) :
          ~LastOfItsName(class, j)

\* Two entities agree on what C4 compares.
SameSpanAndHash(a, b) ==
    /\ a.name = b.name
    /\ a.line_start = b.line_start
    /\ a.line_end = b.line_end
    /\ a.hash = b.hash

\* C4: a rebuild over an unchanged tree is idempotent: when two passes in a
\* row ran with no change of the tree since the first began, the second
\* leaves in all_entities and modules the same entity names as the first
\* (gen_start is the index the first one left), each with the same
\* line_start, line_end and hash.
C4_RebuildIdempotent ==
    (pc = "sleep" /\ quiet = 2)
        => /\ DictKeys(all_entities) = DictKeys(gen_start.all_entities)
           /\ DictKeys(modules) = DictKeys(gen_start.modules)
           /\ \A k \in KeySet(all_entities) :
                 SameSpanAndHash(DictGet(all_entities, k), DictGet(gen_start.all_entities, k))
           /\ \A k \in KeySet(modules) :
                 SameSpanAndHash(DictGet(modules, k), DictGet(gen_start.modules, k))

\* C4 witness: two passes in a row over the same two files, which hold a
\* class with methods and a function, have completed.
C4_Witness ==
    /\ pc = "sleep" /\ quiet = 2
    /\ Len(python_files) = 2
    /\ DictHas(all_entities, <<"K", ".", "g">>)
    /\ DictHas(all_entities, <<"f">>)
    /\ \E i \in 1..Len(all_entities) : all_entities[i].val.hash # <<>>

\* Opening, decoding or parsing a file that holds this fails.
Fails(c) == c = Absent \/ ~Contents[c].decodes \/ ~Contents[c].parses

\* The positions of the last pass whose file was read and parsed.
GoodPositions ==
    SelectSeq([j \in 1..Len(read_log) |-> j], LAMBDA j : ~Fails(read_log[j]))

\* C5: a file that fails to decode or parse adds nothing to all_entities or
\* modules, the pass still completes, and the index it leaves is the one the
\* pass leaves over the other files alone, wherever the failing file stands
\* in the walk order.
C5_FailingFileContributesNothing ==
    pc = "sleep"
        => Index = RunPass(gen_start,
                           [i \in 1..Len(GoodPositions) |-> python_files[GoodPositions[i]]],
                           [i \in 1..Len(GoodPositions) |-> read_log[GoodPositions[i]]],
                           1)

\* C5 witness: a pass has completed whose first file failed (a syntax error
\* or undecodable bytes) and whose second file was indexed.
C5_Witness ==
    /\ pc = "sleep"
    /\ Len(read_log) = 2
    /\ read_log[1] # Absent /\ Fails(read_log[1])
    /\ ~Fails(read_log[2])
    /\ DictHas(modules, module_name_of(Places[python_files[2]]))
    /\ ~DictHas(modules, module_name_of(Places[python_files[1]]))

\* C6: a rebuild whose root path does not exist does not complete normally:
\* a pass that returned to its caller, which went on to serve, walked an
\* existing root.
C6_MissingRootAborts == pc = "sleep" => root_at_walk

\* C7 as claimed: the indexer's search called with the empty query never
\* yields entities of the index.
C7_IndexerRejectsEmptyQuery ==
    all_entities # <<>> => search_entities(all_entities, <<>>, "") = <<>>

\* C7 as amended: the /search route rejects the empty query with status 400
\* and no entity, without calling the indexer; search_entities itself does no
\* validation and, called with the empty query, returns every entity of the
\* index that passes the type filter.
C7_RouteRejectsEmptyQuery ==
    /\ (resp.op = "search" /\ resp.query = <<>>)
           => (resp.status = 400 /\ resp.body = <<>>)
    /\ \A t \in TypeFilters :
          search_entities(all_entities, <<>>, t)
              = SelectSeq(DictValues(all_entities),
                          LAMBDA e : t = "" \/ e.entity_type = t)

\* C7 witness: the route has answered an empty query over a non-empty index.
C7_Witness ==
    /\ resp.op = "search" /\ resp.query = <<>>
    /\ Len(all_entities) >= 2

\* C8: for a non-empty query, search_entities returns the matching entities
\* of the index once each, in the order in which the latest rebuild inserted
\* them: when the index holds just the names that pass inserted, the result
\* is the one over FreshPass, whose dicts hold them in that order.
C8_SearchInLatestPassOrder ==
    (pc = "sleep" /\ KeySet(all_entities) = KeySet(FreshPass.all_entities))
        => \A q \in Queries \ {<<>>} : \A t \in TypeFilters :
               search_entities(all_entities, q, t)
                   = search_entities(FreshPass.all_entities, q, t)

\* The elements of a list, as a set.
SeqSet(list) == {list[i] : i \in 1..Len(list)}

\* The names under which both dicts hold a module entity.
ModuleNames == {k \in KeySet(modules) : DictGet(all_entities, k).entity_type = "module"}

\* C9: for a module M, imported_by holds just the names of the modules other
\* than M with an import string containing M's name, and imports just the
\* names of the known modules other than M contained in an import string of
\* M; M itself is in neither list.
C9_ModuleRelationsExcludeSelf ==
    \A M \in ModuleNames :
        LET entity == DictGet(all_entities, M)
            r == get_entity_relationships(modules, all_entities, M)
            others == {modules[i].val : i \in 1..Len(modules)} \ {DictGet(modules, M)}
        IN  /\ SeqSet(r.imported_by)
                  = {o.name : o \in {x \in others :
                        \E k \in 1..Len(x.imports) : Contains(x.imports[k], M)}}
            /\ SeqSet(r.imports)
                  = {k \in KeySet(modules) \ {M} :
                        \E i \in 1..Len(entity.imports) : Contains(entity.imports[i], k)}

\* Every entity the index holds: the values of all_entities and modules, with
\* the classes, functions and methods they list.
StoredEntities ==
    LET top == SeqSet(DictValues(all_entities)) \cup SeqSet(DictValues(modules))
        listed == UNION {SeqSet(e.classes) \cup SeqSet(e.functions) \cup SeqSet(e.methods)
                         : e \in top}
    IN  top \cup listed \cup UNION {SeqSet(e.methods) : e \in listed}

\* C10: every entity stored in the index has line_start <= line_end.
C10_SpanOrdered == \A e \in StoredEntities : e.line_start <= e.line_end

\* The background thread runs: it sleeps between polls or rebuilds.
BackgroundRuns == pc \in {"sleep", "bg_index"}

\* C11: the background refresh task never stops re-trying: once it runs it
\* goes on running whatever a step does, also a step of a rebuild in which a
\* file or a stage failed, so that a poll made after index_interval always
\* finds it there to start a rebuild.
C11_BackgroundTaskNeverStops == [][BackgroundRuns => BackgroundRuns']_vars

\* The greatest of a non-empty set of numbers.
Greatest(S) == CHOOSE x \in S : \A y \in S : y <= x

RECURSIVE SpanAlgorithm(_)
\* The span algorithm as specified: descend into the last child, in
\* iteration order, among the children that carry a line number, until a
\* node has no such child, and return that node's line number.
SpanAlgorithm(n) ==
    LET lined == {i \in 1..Len(n.children) : n.children[i].lineno # 0}
    IN  IF lined = {} THEN n.lineno
        ELSE SpanAlgorithm(n.children[Greatest(lined)])

\* C12: for every syntax tree, _find_node_end gives what the specified span
\* algorithm gives, also when the last child in iteration order carries no
\* line number while an earlier child does.
C12_FindNodeEndIsSpanAlgorithm ==
    node_end # 0 => node_end = SpanAlgorithm(node)

\* The files of the pass that were read and parsed.
ParsedFiles == {i \in 1..Len(src_files) : ~Fails(src_files[i].content)}

\* The names one file defines: its module, its top-level classes and
\* functions, and their methods.
NamesOf(file) ==
    KeySet(IndexParsedFile(EmptyIndex, file.place, file.content).all_entities)

\* No name is defined by two different files of the pass.
NoCollision ==
    \A i, j \in ParsedFiles :
        i # j => NamesOf(src_files[i]) \cap NamesOf(src_files[j]) = {}

\* C13: after a pass over a tree in which no two files define the same name,
\* every top-level class and function of every parsed file is returned by
\* get_entity_by_name under its own name, and what is returned is the entity
\* listed in its module's classes or functions, also for a class or function
\* named like its module.
C13_TopLevelRetrievable ==
    (pc = "indexed" /\ NoCollision)
        => \A i \in ParsedFiles :
               LET module == DictGet(modules, module_name_of(src_files[i].place))
               IN  \A e \in SeqSet(module.classes) \cup SeqSet(module.functions) :
                       get_entity_by_name(all_entities, e.name) = e

\* text starts with prefix.
StartsWith(text, prefix) ==
    Len(prefix) <= Len(text) /\ SubSeq(text, 1, Len(prefix)) = prefix

\* A directory name the default patterns are meant to prune: a hidden one,
\* __pycache__, venv or env.
PrunedDirectory(name) ==
    \/ StartsWith(name, <<".">>)
    \/ name \in {<<"_","_","p","y","c","a","c","h","e","_","_">>,
                 <<"v","e","n","v">>, <<"e","n","v">>}

\* The files the default patterns are meant to keep: the basename ends in
\* .py and starts neither with a dot nor with venv or env, and no directory
\* on the way from the root is a pruned one.
MeantToBeFound(place) ==
    /\ EndsWith(place.base, <<".","p","y">>)
    /\ ~StartsWith(place.base, <<".">>)
    /\ ~StartsWith(place.base, <<"v","e","n","v">>)
    /\ ~StartsWith(place.base, <<"e","n","v">>)
    /\ \A i \in 1..Len(place.dirs) : ~PrunedDirectory(place.dirs[i])

\* C14: with the default exclude patterns, the walk of a pass returns every
\* file of the tree that is meant to be found (u.py directly under the root,
\* d/u2.py below it): while the tree is as the walk saw it, python_files
\* holds just those files.
C14_DefaultPatternsFindSources ==
    (Indexing /\ exclude_patterns = DefaultPatterns /\ root_at_walk /\ ~dirty_pass)
        => SeqSet(python_files)
               = {p \in PlaceIds : fs[p] # Absent /\ MeantToBeFound(Places[p])}

=============================================================================
